---- MODULE Spec2Model ----
(***************************************************************************)
(* Model of the coderr_app serializers (src/coderr_app/api/serializer.py): *)
(* Offer creation and update with nested OfferDetail rows, Orders and      *)
(* their status patch, Reviews and their patch.                            *)
(*                                                                         *)
(* The source wraps none of its writes in a transaction, so every ORM      *)
(* statement of OfferSerializer.create and OfferSerializer.update commits  *)
(* on its own.  An Offer request is therefore a sequence of steps, one per *)
(* database statement, and the steps of two requests interleave.  Review   *)
(* creation is modelled the same way: the duplicate lookup of validate()   *)
(* and the INSERT of save() are separate steps of concurrent clients.      *)
(* A Review patch is the load of the Review and, later, its save, run by   *)
(* two concurrent clients.  A status patch is handled by one action:       *)
(* status is the one column of an Order that is ever written and every     *)
(* accepted patch names it, so the save of a copy loaded earlier writes    *)
(* what the save of a fresh one writes.                                    *)
(***************************************************************************)
EXTENDS Integers, Sequences, FiniteSets, TLC

\* ------------------------------------------------------------------ bounds
\* longest `details` list of an Offer creation request
MaxDetails == 4
\* most Orders placed
MaxOrders == 2
\* clients that create Reviews concurrently
NumClients == 2
\* most Review rows
MaxReviews == 2

VARIABLES
    offer,        \* the Offer row the requests work on, or NoOffer
    details,      \* the OfferDetail rows of that Offer (instance.details), by pk
    proc,         \* per Offer client: its request in flight, the objects it has loaded, its position
    orders,       \* the Order rows, by id
    orderedTerms, \* history: for each Order, the OfferDetail attributes when it was placed
    statusBefore, \* history: the status the Order patched last had before that patch
    reviews,      \* the Review rows, by id
    clientPc,     \* per client: "idle", or "validated" between is_valid() and save()
    clientData,   \* per client: the validated data and the reviewer of its creation
    patch,        \* per Review patch client: the payload of its patch and the Review it loaded
    request,      \* the Order request in flight
    response      \* the outcome of the Order or Review request answered last

offerVars == <<offer, details, proc>>
orderVars == <<orders, orderedTerms, statusBefore>>
reviewVars == <<reviews, clientPc, clientData, patch>>
vars == <<offer, details, proc, orders, orderedTerms, statusBefore,
          reviews, clientPc, clientData, patch, request, response>>

\* ------------------------------------------------------------------ values
Tiers == {"basic", "standard", "premium"}
\* offer_type values a request can carry: the three tiers and one other label
OfferTypes == Tiers \cup {"gold"}

DetailAttrs == {"title", "revisions", "delivery_time_in_days", "price", "features"}
OfferAttrs == {"title", "description", "image"}

NoOffer == [id |-> 0]
NoRequest == [op |-> "none"]
NoImage == "null"
NoData == [k \in {} |-> ""]

\* ------------------------------------------------------------------ errors
\* an error has a kind; a ValidationError raised with a message carries the
\* message and the names the message is formatted with, a ValidationError
\* raised for fields carries the message of each field
Ok == [kind |-> "ok", detail |-> "", arg |-> {}, fields |-> NoData]
ValidationError(msg, arg) ==
    [kind |-> "ValidationError", detail |-> msg, arg |-> arg, fields |-> NoData]
FieldErrors(errs) ==
    [kind |-> "ValidationError", detail |-> "", arg |-> {}, fields |-> errs]

ExactlyThreeMsg == "Exactly 3 details must be provided."
EachTierOnceMsg == "Each offer_type (basic, standard, premium) must appear exactly once."
MissingOfferTypeMsg == "Each detail must include 'offer_type'."
DuplicateOfferTypeMsg == "Duplicate offer_type values are not allowed."
DetailDoesNotExistMsg == "Detail with offer_type does not exist."

NoResponse == [op |-> "none", err |-> Ok]
Clients == 1..NumClients
\* the clients whose Offer requests run concurrently
OfferClients == {"A", "B"}
\* the clients whose Review patches run concurrently
PatchClients == {"P", "Q"}
Idle == [pc |-> "idle"]
NoRow == [pk |-> 0]

\* ------------------------------------------------------------------ helpers
\* dict.get(key, default)
Get(d, key, default) == IF key \in DOMAIN d THEN d[key] ELSE default

Range(s) == {s[i] : i \in 1..Len(s)}

SeqsUpTo(S, n) == UNION {[1..k -> S] : k \in 0..n}

\* [d.get('offer_type') for d in details]; None is written "None"
TypesOf(list) == [i \in 1..Len(list) |-> Get(list[i], "offer_type", "None")]

\* ------------------------------------------------------------ Offer: validate
\* variant of the create branch that checks the count of the details only
OfferValidateCreateCountOnly(attrs) ==
    LET dets == Get(attrs, "details", <<>>)
    IN  IF "details" \notin DOMAIN attrs \/ Len(dets) = 0 \/ Len(dets) # 3
        THEN ValidationError(ExactlyThreeMsg, {})
        ELSE Ok

\* OfferSerializer.validate, create branch (self.instance is None)
OfferValidateCreate(attrs) ==
    LET dets == Get(attrs, "details", <<>>)
        types == TypesOf(dets)
    IN  IF "details" \notin DOMAIN attrs \/ Len(dets) = 0 \/ Len(dets) # 3
        THEN ValidationError(ExactlyThreeMsg, {})
        ELSE IF Range(types) # Tiers \/ Len(types) # Cardinality(Range(types))
        THEN ValidationError(EachTierOnceMsg, {})
        ELSE Ok

\* OfferSerializer.validate, update branch (self.instance is an Offer)
OfferValidateUpdate(attrs) ==
    LET dets == Get(attrs, "details", <<>>)
        types == TypesOf(dets)
    IN  IF "details" \in DOMAIN attrs /\ Len(dets) > 0
        THEN IF \E i \in 1..Len(dets) : "offer_type" \notin DOMAIN dets[i]
             THEN ValidationError(MissingOfferTypeMsg, {})
             ELSE IF Len(types) # Cardinality(Range(types))
             THEN ValidationError(DuplicateOfferTypeMsg, {})
             ELSE Ok
        ELSE Ok

\* ------------------------------------------------------------ Offer: create
\* Offer.objects.create(**validated_data): the Offer row that is inserted
OfferObjectsCreate(validated_data) ==
    [id |-> 1,
     title |-> validated_data["title"],
     description |-> validated_data["description"],
     image |-> Get(validated_data, "image", NoImage)]

\* OfferDetail.objects.create(offer=offer, **detail): one row is inserted
OfferDetailObjectsCreate(rows, detail) == Append(rows, detail)

\* ------------------------------------------------------------ Offer: update
\* instance.title = validated_data.get('title', instance.title), and the same
\* for description and image: the instance as instance.save() writes it
InstanceAssign(instance, validated_data) ==
    [instance EXCEPT
        !.title = Get(validated_data, "title", instance.title),
        !.description = Get(validated_data, "description", instance.description),
        !.image = Get(validated_data, "image", instance.image)]

\* instance.details.get(offer_type=...): the pks of the rows of that type
DetailsGet(rows, type) == {j \in 1..Len(rows) : rows[j].offer_type = type}

\* for attr, value in detail.items(): skip offer_type, setattr the rest
SetAttrs(row, detail) ==
    [k \in DOMAIN row |->
        IF k \in DOMAIN detail /\ k # "offer_type" THEN detail[k] ELSE row[k]]

\* variant of the save that inserts the object as a new row
SingleDetailSaveInsert(rows, pk, row) == Append(rows, row)

\* single_detail.save(): every column of the row with the object's pk is
\* written from the object
SingleDetailSave(rows, pk, row) == [rows EXCEPT ![pk] = row]

\* variant in which OfferDetail.DoesNotExist is not caught
DoesNotExistUncaught(type) ==
    [kind |-> "DoesNotExist", detail |-> "", arg |-> {type}, fields |-> NoData]

\* except OfferDetail.DoesNotExist: raise serializers.ValidationError(...)
DoesNotExist(type) == ValidationError(DetailDoesNotExistMsg, {type})

\* ------------------------------------------------------------ requests
\* a details entry of a creation request: every field of the nested serializer
\* is required there, and the values pass its field validation
CreateDetail(type) ==
    [offer_type |-> type, title |-> "t1", revisions |-> 1,
     delivery_time_in_days |-> 7, price |-> 10, features |-> <<"f1">>]

\* the values an update request carries for the attributes it names
NewDetailValue ==
    [title |-> "t2", revisions |-> 2, delivery_time_in_days |-> 3,
     price |-> 50, features |-> <<"f1", "f2">>]
NewOfferValue == [title |-> "T2", description |-> "D2", image |-> "img2"]

\* a details entry of an update (PATCH) request: partial, offer_type may be absent
Patch(type, attrs) ==
    [k \in attrs \cup (IF type = "absent" THEN {} ELSE {"offer_type"}) |->
        IF k = "offer_type" THEN type ELSE NewDetailValue[k]]

OfferCreateRequests ==
    {[op |-> "create_offer", data |-> [title |-> "T1", description |-> "D1"]]}
    \cup {[op |-> "create_offer",
           data |-> [title |-> "T1", description |-> "D1",
                     details |-> [i \in 1..Len(ts) |-> CreateDetail(ts[i])]]]
          : ts \in SeqsUpTo(OfferTypes, MaxDetails)}

\* the update requests either client sends: the Offer's own attributes alone,
\* an empty details list, two attributes of one row in separate requests, two
\* rows in one request, a row and then a label no row carries, a repeated
\* offer_type, an entry without offer_type
OfferUpdateRequests ==
    {[op |-> "update_offer", data |-> d] : d \in
        {[title |-> NewOfferValue.title],
         [description |-> NewOfferValue.description, image |-> NewOfferValue.image],
         [details |-> <<>>],
         [details |-> <<Patch("standard", {"price"})>>],
         [details |-> <<Patch("standard", {"title"})>>],
         [details |-> <<Patch("standard", {"price"}), Patch("basic", {"price"})>>],
         [title |-> NewOfferValue.title,
          details |-> <<Patch("basic", {"price"}), Patch("gold", {"price"})>>],
         [details |-> <<Patch("basic", {"price"}), Patch("basic", {"title"})>>],
         [details |-> <<Patch("absent", {"price"})>>]}}

\* ------------------------------------------------------------ actions
Init ==
    /\ offer = NoOffer
    /\ details = <<>>
    /\ proc = [c \in OfferClients |-> Idle]
    /\ orders = <<>>
    /\ orderedTerms = <<>>
    /\ statusBefore = "none"
    /\ reviews = <<>>
    /\ clientPc = [c \in Clients |-> "idle"]
    /\ clientData = [c \in Clients |-> NoData]
    /\ patch = [c \in PatchClients |-> Idle]
    /\ request = NoRequest
    /\ response = NoResponse

\* POST /offers/ arrives at client c; the serializer is built without an
\* instance.  The model follows one Offer: the rows of another Offer are never
\* read or written by the requests on this one.
SubmitOfferCreate(c, reqs) ==
    /\ proc[c] = Idle
    /\ offer = NoOffer
    /\ \A d \in OfferClients : proc[d] = Idle
    /\ \E r \in reqs :
          proc' = [proc EXCEPT ![c] = [pc |-> "validate", op |-> r.op, data |-> r.data,
                                       i |-> 1, err |-> Ok]]
    /\ UNCHANGED <<offer, details, request, response>>
    /\ UNCHANGED orderVars
    /\ UNCHANGED reviewVars

\* is_valid(), and when it passes the first statement of create():
\* Offer.objects.create (INSERT of the Offer row)
OfferCreateInsertOffer(c) ==
    /\ proc[c].pc = "validate"
    /\ LET err == OfferValidateCreate(proc[c].data)
       IN  IF err = Ok
           THEN /\ offer' = OfferObjectsCreate(proc[c].data)
                /\ proc' = [proc EXCEPT ![c].pc = "insert"]
           ELSE /\ UNCHANGED offer
                /\ proc' = [proc EXCEPT ![c].pc = "done", ![c].err = err]
    /\ UNCHANGED <<details, request, response>>
    /\ UNCHANGED orderVars
    /\ UNCHANGED reviewVars

\* one turn of the loop of create(): OfferDetail.objects.create (INSERT of one row)
OfferCreateInsertDetail(c) ==
    /\ proc[c].pc = "insert"
    /\ LET detail_data == proc[c].data["details"]
           i == proc[c].i
       IN  /\ details' = OfferDetailObjectsCreate(details, detail_data[i])
           /\ proc' = IF i = Len(detail_data)
                      THEN [proc EXCEPT ![c].pc = "done"]
                      ELSE [proc EXCEPT ![c].i = i + 1]
    /\ UNCHANGED <<offer, request, response>>
    /\ UNCHANGED orderVars
    /\ UNCHANGED reviewVars

\* PATCH /offers/{id}/ arrives at client c; the Offer is loaded and the
\* serializer is built with it as self.instance.  changed and onlyNamed are
\* history: whether a write of this request has changed a stored value, and
\* whether every write so far changed exactly what the request names.
SubmitOfferUpdate(c, reqs) ==
    /\ proc[c] = Idle
    /\ offer # NoOffer
    /\ \E r \in reqs :
          proc' = [proc EXCEPT ![c] = [pc |-> "save", op |-> r.op, data |-> r.data,
                                       instance |-> offer, i |-> 1, row |-> NoRow,
                                       err |-> Ok, changed |-> FALSE, onlyNamed |-> TRUE]]
    /\ UNCHANGED <<offer, details, request, response>>
    /\ UNCHANGED orderVars
    /\ UNCHANGED reviewVars

\* is_valid(), and when it passes the first statement of update(): the three
\* attributes are set on the loaded instance and instance.save() writes every
\* column of the Offer row from it.  The attributes of the instance are not
\* read again, and the model forgets them.
OfferUpdateSaveInstance(c) ==
    /\ proc[c].pc = "save"
    /\ LET data == proc[c].data
           err == OfferValidateUpdate(data)
           saved == InstanceAssign(proc[c].instance, data)
           detail_data == Get(data, "details", <<>>)
           named == \A a \in OfferAttrs :
                       saved[a] = IF a \in DOMAIN data THEN data[a] ELSE offer[a]
       IN  IF err = Ok
           THEN /\ offer' = saved
                /\ proc' = [proc EXCEPT
                              ![c].pc = IF Len(detail_data) > 0 THEN "get" ELSE "done",
                              ![c].instance = NoOffer,
                              ![c].changed = (saved # offer),
                              ![c].onlyNamed = named]
           ELSE /\ UNCHANGED offer
                /\ proc' = [proc EXCEPT ![c].pc = "done", ![c].err = err]
    /\ UNCHANGED <<details, request, response>>
    /\ UNCHANGED orderVars
    /\ UNCHANGED reviewVars

\* one turn of the loop of update(), first statement:
\* instance.details.get(offer_type=...) loads the row, or raises
OfferUpdateGetDetail(c) ==
    /\ proc[c].pc = "get"
    /\ LET detail == proc[c].data["details"][proc[c].i]
           found == DetailsGet(details, detail.offer_type)
       IN  IF found = {}
           THEN proc' = [proc EXCEPT ![c].pc = "done",
                                     ![c].err = DoesNotExist(detail.offer_type)]
           ELSE LET j == CHOOSE j \in found : TRUE
                IN  proc' = [proc EXCEPT ![c].pc = "patch",
                                         ![c].row = [pk |-> j, values |-> details[j]]]
    /\ UNCHANGED <<offer, details, request, response>>
    /\ UNCHANGED orderVars
    /\ UNCHANGED reviewVars

\* one turn of the loop of update(), second statement: the attributes of the
\* entry are set on the loaded row and single_detail.save() writes it
OfferUpdateSaveDetail(c) ==
    /\ proc[c].pc = "patch"
    /\ LET detail_data == proc[c].data["details"]
           i == proc[c].i
           pk == proc[c].row.pk
           single_detail == SetAttrs(proc[c].row.values, detail_data[i])
           rows == SingleDetailSave(details, pk, single_detail)
           named == /\ Len(rows) = Len(details)
                    /\ \A j \in 1..Len(details) : \A a \in DOMAIN details[j] :
                          rows[j][a] =
                             IF j = pk /\ a \in DOMAIN detail_data[i] /\ a # "offer_type"
                             THEN detail_data[i][a] ELSE details[j][a]
       IN  /\ details' = rows
           /\ proc' = [proc EXCEPT
                         ![c].pc = IF i = Len(detail_data) THEN "done" ELSE "get",
                         ![c].i = i + 1,
                         ![c].row = NoRow,
                         ![c].changed = (@ \/ rows # details),
                         ![c].onlyNamed = (@ /\ named)]
    /\ UNCHANGED <<offer, request, response>>
    /\ UNCHANGED orderVars
    /\ UNCHANGED reviewVars

\* the request of client c has run to its end or to its error (proc[c].err is
\* its outcome) and is answered
OfferRespond(c) ==
    /\ proc[c].pc = "done"
    /\ proc' = [proc EXCEPT ![c] = Idle]
    /\ UNCHANGED <<offer, details, request, response>>
    /\ UNCHANGED orderVars
    /\ UNCHANGED reviewVars

NextOffer ==
    \/ SubmitOfferCreate("A", OfferCreateRequests)
    \/ \E c \in OfferClients : OfferCreateInsertOffer(c)
    \/ \E c \in OfferClients : OfferCreateInsertDetail(c)
    \/ \E c \in OfferClients : SubmitOfferUpdate(c, OfferUpdateRequests)
    \/ \E c \in OfferClients : OfferUpdateSaveInstance(c)
    \/ \E c \in OfferClients : OfferUpdateGetDetail(c)
    \/ \E c \in OfferClients : OfferUpdateSaveDetail(c)
    \/ \E c \in OfferClients : OfferRespond(c)

\* the Offer and its OfferDetail rows under one creation and the update
\* requests of two concurrent clients
SpecOffer == Init /\ [][NextOffer]_vars

\* ------------------------------------------------------------ Order
\* Order.STATUS_CHOICES, the labels of the status ChoiceField
STATUS_CHOICES == {"pending", "in_progress", "completed", "cancelled"}
\* the status of an Order when it is placed
InitialStatus == "pending"
TerminalStatuses == {"completed", "cancelled"}

ForbiddenFieldsMsg == "Forbidden fields"
NoDataMsg == "No data provided."
InvalidChoiceMsg == "is not a valid choice."
OfferDetailIdInvalidMsg == "OfferDetail not found."

\* the attributes of the OfferDetail an Order shows
OrderTermAttrs == DetailAttrs \cup {"offer_type"}

\* placing an Order: offer_detail_id is resolved to an OfferDetail row, the
\* Order refers to it and starts in the initial status
OrderCreate(rows, nextId, data) ==
    IF data.offer_detail_id \in 1..Len(rows)
    THEN [err |-> Ok,
          order |-> [id |-> nextId, offer_detail |-> data.offer_detail_id,
                     customer_user |-> "customer1", business_user |-> "business1",
                     status |-> InitialStatus]]
    ELSE [err |-> [kind |-> "NotFoundError", detail |-> OfferDetailIdInvalidMsg,
                   arg |-> {}, fields |-> NoData],
          order |-> [id |-> 0]]

\* variant of the representation that shows the attributes kept when the Order
\* was placed
OrderRepresentationSnapshot(order, rows) ==
    [a \in OrderTermAttrs |-> orderedTerms[order.id][a]]

\* OrderSerializer's read-only fields title, revisions, delivery_time_in_days,
\* price, features, offer_type: each has source 'offer_detail.<attr>' and is
\* read from the referenced OfferDetail row when the Order is serialized
OrderRepresentation(order, rows) ==
    [a \in OrderTermAttrs |-> rows[order.offer_detail][a]]

\* OrderStatusUpdateSerializer.to_internal_value on a PATCH (partial) payload:
\* only writable fields are read, and status is the one field that is neither
\* declared read_only nor listed in read_only_fields; every other key of the
\* payload is dropped
OrderStatusToInternal(payload) ==
    IF "status" \notin DOMAIN payload
    THEN [err |-> Ok, attrs |-> NoData]
    ELSE IF payload.status \notin STATUS_CHOICES
    THEN [err |-> FieldErrors([status |-> InvalidChoiceMsg]), attrs |-> NoData]
    ELSE [err |-> Ok, attrs |-> [k \in {"status"} |-> payload.status]]

\* OrderStatusUpdateSerializer.validate.  The message names every forbidden
\* key, joined in the iteration order of a Python set, which is not fixed: the
\* error carries the set of the names.
OrderStatusValidate(attrs) ==
    LET allowed == {"status"}
        forbidden == DOMAIN attrs \ allowed
    IN  IF forbidden # {}
        THEN ValidationError(ForbiddenFieldsMsg, forbidden)
        ELSE IF DOMAIN attrs = {}
        THEN ValidationError(NoDataMsg, {})
        ELSE Ok

\* variant of the update that keeps a completed or cancelled status
OrderStatusUpdateTerminal(order, validated_data) ==
    IF order.status \in TerminalStatuses
    THEN order
    ELSE [k \in DOMAIN order |-> IF k \in DOMAIN validated_data THEN validated_data[k] ELSE order[k]]

\* ModelSerializer.update of OrderStatusUpdateSerializer: every validated
\* attribute is set on the Order, which is then saved
OrderStatusUpdate(order, validated_data) ==
    [k \in DOMAIN order |-> IF k \in DOMAIN validated_data THEN validated_data[k] ELSE order[k]]

\* payloads of a status patch
OrderPatchPayloads ==
    {NoData, [price |-> 10], [status |-> "archived"],
     [status |-> "completed", price |-> 10]}
    \cup {[status |-> st] : st \in STATUS_CHOICES}

\* the requests on the Offer of the specification of Orders: the creation with
\* the three tiers and the updates that reprice one tier
OrderSpecOfferCreateRequests ==
    {[op |-> "create_offer",
      data |-> [title |-> "T1", description |-> "D1",
                details |-> <<CreateDetail("basic"), CreateDetail("standard"),
                              CreateDetail("premium")>>]]}
OrderSpecOfferUpdateRequests ==
    {[op |-> "update_offer", data |-> [details |-> <<Patch(t, {"price"})>>]]
     : t \in {"basic", "premium"}}

\* the offer_detail_id values an Order creation carries: the pk of the first
\* OfferDetail row, and a pk no row has
OrderDetailIds == {1, 4}

\* POST /orders/ arrives
SubmitOrderCreate ==
    /\ request = NoRequest
    /\ Len(orders) < MaxOrders
    /\ \E n \in OrderDetailIds :
          request' = [op |-> "create_order", data |-> [offer_detail_id |-> n]]
    /\ UNCHANGED <<response, statusBefore>>
    /\ UNCHANGED <<offer, details, proc, orders, orderedTerms>>
    /\ UNCHANGED reviewVars

HandleOrderCreate ==
    /\ request.op = "create_order"
    /\ LET made == OrderCreate(details, Len(orders) + 1, request.data)
       IN  IF made.err = Ok
           THEN /\ orders' = Append(orders, made.order)
                /\ orderedTerms' = Append(orderedTerms, details[made.order.offer_detail])
           ELSE UNCHANGED <<orders, orderedTerms>>
    /\ response' = [op |-> "create_order",
                    err |-> OrderCreate(details, Len(orders) + 1, request.data).err]
    /\ request' = NoRequest
    /\ UNCHANGED <<offer, details, proc, statusBefore>>
    /\ UNCHANGED reviewVars

\* PATCH /orders/{id}/ arrives
SubmitOrderPatch ==
    /\ request = NoRequest
    /\ \E i \in 1..Len(orders), payload \in OrderPatchPayloads :
          request' = [op |-> "patch_order", id |-> i, data |-> payload]
    /\ UNCHANGED <<response, statusBefore>>
    /\ UNCHANGED <<offer, details, proc, orders, orderedTerms>>
    /\ UNCHANGED reviewVars

\* is_valid() then save() of a status patch
HandleOrderPatch ==
    /\ request.op = "patch_order"
    /\ LET read == OrderStatusToInternal(request.data)
           err == IF read.err # Ok THEN read.err ELSE OrderStatusValidate(read.attrs)
       IN  /\ response' = [op |-> "patch_order", err |-> err]
           /\ IF err = Ok
              THEN /\ orders' = [orders EXCEPT
                                   ![request.id] = OrderStatusUpdate(orders[request.id], read.attrs)]
                   /\ statusBefore' = orders[request.id].status
              ELSE UNCHANGED <<orders, statusBefore>>
    /\ request' = NoRequest
    /\ UNCHANGED <<offer, details, proc, orderedTerms>>
    /\ UNCHANGED reviewVars

NextOrder ==
    \/ SubmitOfferCreate("A", OrderSpecOfferCreateRequests)
    \/ \E c \in OfferClients : OfferCreateInsertOffer(c)
    \/ \E c \in OfferClients : OfferCreateInsertDetail(c)
    \/ SubmitOfferUpdate("A", OrderSpecOfferUpdateRequests)
    \/ \E c \in OfferClients : OfferUpdateSaveInstance(c)
    \/ \E c \in OfferClients : OfferUpdateGetDetail(c)
    \/ \E c \in OfferClients : OfferUpdateSaveDetail(c)
    \/ \E c \in OfferClients : OfferRespond(c)
    \/ SubmitOrderCreate
    \/ HandleOrderCreate
    \/ SubmitOrderPatch
    \/ HandleOrderPatch

\* Orders on the OfferDetail rows of the Offer, their status patches, and the
\* Offer updates that reprice a row
SpecOrder == Init /\ [][NextOrder]_vars


\* ------------------------------------------------------------ Review
\* the users, and the type of the profile of those that have one
Users == {"u1", "u2", "b1", "b2", "c1", "admin"}
ProfileType ==
    [u1 |-> "customer", u2 |-> "customer", c1 |-> "customer",
     b1 |-> "business", b2 |-> "business"]
\* the users that send Review creations
Reviewers == {"u1", "u2"}

NotBusinessMsg == "Must be a business profile."
AlreadyReviewedMsg == "You have already reviewed this business user."
RatingMaxMsg == "Ensure this value is less than or equal to 5."
RatingMinMsg == "Ensure this value is greater than or equal to 1."
BlankMsg == "This field may not be blank."
RequiredMsg == "This field is required."
InvalidPkMsg == "Invalid pk - object does not exist."

\* the fields of ReviewSerializer and ReviewPatchSerializer that are read from
\* a payload: business_user, rating and description are declared on the class
\* without read_only (Meta.read_only_fields does not reach a declared field);
\* reviewer is declared read_only and is dropped
ReviewWritableFields == {"business_user", "rating", "description"}

\* the error of one field of a payload, "" when it has none:
\* business_user = PrimaryKeyRelatedField(queryset=User.objects.all()),
\* rating = IntegerField(min_value=1, max_value=5), description = CharField()
ReviewFieldError(f, payload, partial) ==
    IF f \notin DOMAIN payload
    THEN IF partial THEN "" ELSE RequiredMsg
    ELSE IF f = "business_user"
    THEN IF payload[f] \notin Users THEN InvalidPkMsg ELSE ""
    ELSE IF f = "rating"
    THEN IF payload[f] > 5 THEN RatingMaxMsg
         ELSE IF payload[f] < 1 THEN RatingMinMsg ELSE ""
    ELSE IF payload[f] = "" THEN BlankMsg ELSE ""

\* to_internal_value: every writable field the payload has is converted and
\* validated; the errors of all fields are raised together, before validate()
ReviewToInternalValue(payload, partial) ==
    LET bad == {f \in ReviewWritableFields : ReviewFieldError(f, payload, partial) # ""}
    IN  IF bad # {}
        THEN [err |-> FieldErrors([f \in bad |-> ReviewFieldError(f, payload, partial)]),
              attrs |-> NoData]
        ELSE [err |-> Ok,
              attrs |-> [k \in DOMAIN payload \cap ReviewWritableFields |-> payload[k]]]

\* Review.objects.filter(reviewer=user, business_user=business_user).exists()
ReviewExists(rows, user, business_user) ==
    \E i \in 1..Len(rows) : rows[i].reviewer = user /\ rows[i].business_user = business_user

\* ReviewSerializer.validate, reading the Review rows as they are at that moment
ReviewValidate(rows, user, attrs) ==
    LET business_user == attrs.business_user
    IN  IF business_user \notin DOMAIN ProfileType \/ ProfileType[business_user] # "business"
        THEN FieldErrors([business_user |-> NotBusinessMsg])
        ELSE IF ReviewExists(rows, user, business_user)
        THEN ValidationError(AlreadyReviewedMsg, {})
        ELSE Ok

\* serializer.save(reviewer=request.user): one Review row is inserted
ReviewCreate(rows, data) ==
    Append(rows, [id |-> Len(rows) + 1, reviewer |-> data.reviewer,
                  business_user |-> data.business_user,
                  rating |-> data.rating, description |-> data.description])

\* ReviewPatchSerializer.to_internal_value on a PATCH (partial) payload
ReviewPatchToInternal(payload) == ReviewToInternalValue(payload, TRUE)

\* variant of the patch validation that looks for the forbidden keys in attrs
ReviewPatchValidateAttrs(initial_data, attrs) ==
    LET forbidden == DOMAIN attrs \cap {"business_user", "reviewer"}
    IN  IF forbidden # {}
        THEN ValidationError(ForbiddenFieldsMsg, forbidden)
        ELSE Ok

\* ReviewPatchSerializer.validate: the keys of initial_data are checked, and
\* the message names the forbidden ones
ReviewPatchValidate(initial_data, attrs) ==
    LET forbidden == DOMAIN initial_data \cap {"business_user", "reviewer"}
    IN  IF forbidden # {}
        THEN ValidationError(ForbiddenFieldsMsg, forbidden)
        ELSE Ok

\* ModelSerializer.update of ReviewPatchSerializer
ReviewUpdate(review, validated_data) ==
    [k \in DOMAIN review |-> IF k \in DOMAIN validated_data THEN validated_data[k] ELSE review[k]]

\* payloads of a Review creation
ReviewCreatePayloads ==
    {[business_user |-> b, rating |-> r, description |-> "good"]
     : b \in {"b1", "c1", "admin"}, r \in {0, 3}}

\* payloads of a Review patch; "nobody" is the pk of no user
ReviewPatchPayloads ==
    {[rating |-> 5], [description |-> "bad"], [rating |-> 6],
     [business_user |-> "b2"], [reviewer |-> "u2", rating |-> 5],
     [business_user |-> "b2", rating |-> 6], [business_user |-> "nobody"]}

\* is_valid() of a Review creation sent by `user` through client c
ReviewIsValid(c) ==
    /\ clientPc[c] = "idle"
    /\ Len(reviews) + Cardinality({d \in Clients : clientPc[d] = "validated"}) < MaxReviews
    /\ \E user \in Reviewers, payload \in ReviewCreatePayloads :
          LET read == ReviewToInternalValue(payload, FALSE)
              err == IF read.err # Ok THEN read.err
                     ELSE ReviewValidate(reviews, user, read.attrs)
          IN  IF err = Ok
              THEN /\ clientPc' = [clientPc EXCEPT ![c] = "validated"]
                   /\ clientData' = [clientData EXCEPT
                        ![c] = [reviewer |-> user, business_user |-> read.attrs.business_user,
                                rating |-> read.attrs.rating,
                                description |-> read.attrs.description]]
                   /\ UNCHANGED response
              ELSE /\ response' = [op |-> "create_review", err |-> err]
                   /\ UNCHANGED <<clientPc, clientData>>
    /\ UNCHANGED <<reviews, patch, request>>
    /\ UNCHANGED <<offerVars, orderVars>>

\* save() of the creation client c validated
ReviewSave(c) ==
    /\ clientPc[c] = "validated"
    /\ reviews' = ReviewCreate(reviews, clientData[c])
    /\ clientPc' = [clientPc EXCEPT ![c] = "idle"]
    /\ clientData' = [clientData EXCEPT ![c] = NoData]
    /\ response' = [op |-> "create_review", err |-> Ok]
    /\ UNCHANGED <<patch, request>>
    /\ UNCHANGED <<offerVars, orderVars>>

\* the ids of the Reviews the patches name
PatchedReviewIds == {1}

\* PATCH /reviews/{id}/ arrives at client c; the Review is loaded and the
\* serializer is built with it as self.instance
SubmitReviewPatch(c) ==
    /\ patch[c] = Idle
    /\ \E i \in 1..Len(reviews) \cap PatchedReviewIds, payload \in ReviewPatchPayloads :
          patch' = [patch EXCEPT ![c] = [pc |-> "loaded", id |-> i, data |-> payload,
                                         instance |-> reviews[i]]]
    /\ UNCHANGED <<reviews, clientPc, clientData, request, response>>
    /\ UNCHANGED <<offerVars, orderVars>>

\* is_valid() then save() of the patch of client c: the validated attributes
\* are set on the Review the client loaded, and instance.save() writes every
\* column of the row from it
HandleReviewPatch(c) ==
    /\ patch[c].pc = "loaded"
    /\ LET initial_data == patch[c].data
           read == ReviewPatchToInternal(initial_data)
           err == IF read.err # Ok THEN read.err
                  ELSE ReviewPatchValidate(initial_data, read.attrs)
       IN  /\ response' = [op |-> "patch_review", err |-> err]
           /\ IF err = Ok
              THEN reviews' = [reviews EXCEPT
                                 ![patch[c].id] = ReviewUpdate(patch[c].instance, read.attrs)]
              ELSE UNCHANGED reviews
    /\ patch' = [patch EXCEPT ![c] = Idle]
    /\ UNCHANGED <<clientPc, clientData, request>>
    /\ UNCHANGED <<offerVars, orderVars>>

NextReview ==
    \/ \E c \in Clients : ReviewIsValid(c)
    \/ \E c \in Clients : ReviewSave(c)
    \/ \E c \in PatchClients : SubmitReviewPatch(c)
    \/ \E c \in PatchClients : HandleReviewPatch(c)

\* Review creations of concurrent clients, and the Review patches of two
\* concurrent clients
SpecReview == Init /\ [][NextReview]_vars


\* ------------------------------------------------------------ steps
\* a list of details is the three tiers, each exactly once
ExactlyTheThreeTiers(list) ==
    /\ Len(list) = 3
    /\ \A t \in Tiers : Cardinality({i \in 1..Len(list) : list[i].offer_type = t}) = 1

\* the details of the request client c has in flight ("details" absent reads
\* as no entry)
RequestDetails(c) == Get(proc[c].data, "details", <<>>)

\* client c has a request of the kind `op` that has run to its end or its error
Done(c, op) == proc[c].pc = "done" /\ proc[c].op = op

\* ------------------------------------------------------------ C1
\* C1: an Offer creation succeeds, writing the Offer and one OfferDetail per
\* entry, exactly when its details are three entries that are basic, standard
\* and premium once each; any other details (absent, empty, fewer or more than
\* three, a repeated type, a type outside the three) are rejected with
\* "Exactly 3 details" (WrongDetailCount) or "Each offer_type ... exactly once"
\* (DuplicateOrMissingTier) and no row is written.
C1_CreateOnlyExactTiers ==
    [][\A c \in OfferClients :
        /\ (proc[c].pc = "validate" /\ proc'[c] # proc[c]) =>
              IF ExactlyTheThreeTiers(RequestDetails(c))
              THEN /\ proc'[c].pc = "insert"
                   /\ offer' # NoOffer
              ELSE /\ proc'[c].pc = "done"
                   /\ proc'[c].err.kind = "ValidationError"
                   /\ proc'[c].err.detail =
                         (IF Len(RequestDetails(c)) # 3 THEN ExactlyThreeMsg
                          ELSE EachTierOnceMsg)
                   /\ offer' = NoOffer
                   /\ details' = <<>>
        /\ (proc[c].pc = "insert" /\ proc'[c] # proc[c]) =>
              details' = Append(details, RequestDetails(c)[proc[c].i])
        /\ (proc[c].pc = "insert" /\ proc'[c].pc = "done") =>
              /\ proc'[c].err = Ok
              /\ TypesOf(details') = TypesOf(RequestDetails(c))
        /\ (Done(c, "create_offer") /\ proc'[c] = Idle) =>
              IF proc[c].err = Ok
              THEN ExactlyTheThreeTiers(RequestDetails(c)) /\ offer # NoOffer
              ELSE offer = NoOffer /\ details = <<>>]_vars

\* a creation with a repeated tier was rejected and nothing was written
C1_Witness ==
    \E c \in OfferClients :
        /\ Done(c, "create_offer")
        /\ proc[c].err.detail = EachTierOnceMsg
        /\ Len(RequestDetails(c)) = 3
        /\ offer = NoOffer
        /\ details = <<>>

\* ------------------------------------------------------------ C2
\* the rows of the Offer: none when there is no Offer; while the creation is
\* between its INSERT statements, the entries inserted so far; the three tiers
\* once each from then on
TiersOfPersistedOffer ==
    IF offer = NoOffer
    THEN details = <<>>
    ELSE IF \E c \in OfferClients : proc[c].pc = "insert"
    THEN \A c \in OfferClients : proc[c].pc = "insert" =>
            TypesOf(details) = SubSeq(TypesOf(RequestDetails(c)), 1, proc[c].i - 1)
    ELSE ExactlyTheThreeTiers(details)

\* C2: after any sequence of creations and updates, accepted or rejected,
\* interleaved or not, a persisted Offer has exactly three OfferDetail rows
\* whose offer_type values are basic, standard and premium, each once; and no
\* statement of an update adds, removes or retypes a row.  (create() inserts
\* the Offer and its rows with separate statements: until its last INSERT the
\* Offer has the rows inserted so far.)
C2_ThreeTiersAlways ==
    /\ []TiersOfPersistedOffer
    /\ [][\/ \E c \in OfferClients : proc[c].pc = "insert" /\ proc'[c] # proc[c]
          \/ TypesOf(details') = TypesOf(details)]_vars

\* an update has patched a row and then failed on a later entry, and the Offer
\* has its three rows
C2_Witness ==
    \E c \in OfferClients :
        /\ Done(c, "update_offer")
        /\ proc[c].err.detail = DetailDoesNotExistMsg
        /\ proc[c].changed
        /\ Len(details) = 3

\* ------------------------------------------------------------ C3
\* C3: an Offer update is all-or-nothing: when it fails, no write of the
\* request has changed the Offer's title, description or image or an
\* OfferDetail row.
C3_UpdateAllOrNothing ==
    \A c \in OfferClients :
        (Done(c, "update_offer") /\ proc[c].err # Ok) => ~proc[c].changed

\* ------------------------------------------------------------ C9
\* the step of client c that looks for the row of the current entry and finds none
GetDetailFinds(c, found) ==
    /\ proc[c].pc = "get"
    /\ proc'[c] # proc[c]
    /\ (DetailsGet(details, RequestDetails(c)[proc[c].i].offer_type) # {}) = found

\* C9 as stated: an update whose entry names an offer_type no row of the Offer
\* carries fails with an error of kind NotFoundError, distinct from the
\* ValidationError kind.
C9_UnmatchedIsNotFoundError ==
    [][\A c \in OfferClients : GetDetailFinds(c, FALSE) =>
          proc'[c].pc = "done" /\ proc'[c].err.kind = "NotFoundError"]_vars

\* C9 as amended: such an update fails with a ValidationError, the kind used
\* for a missing and for a duplicate offer_type, whose message names the
\* offer_type that matches no row.
C9_UnmatchedIsValidationError ==
    [][\A c \in OfferClients : GetDetailFinds(c, FALSE) =>
          /\ proc'[c].pc = "done"
          /\ proc'[c].err.kind = "ValidationError"
          /\ proc'[c].err.kind = ValidationError(MissingOfferTypeMsg, {}).kind
          /\ proc'[c].err.kind = ValidationError(DuplicateOfferTypeMsg, {}).kind
          /\ proc'[c].err.detail = DetailDoesNotExistMsg
          /\ proc'[c].err.arg = {RequestDetails(c)[proc[c].i].offer_type}]_vars

\* an update has failed because an entry named the label that is no tier
C9_Witness ==
    \E c \in OfferClients :
        /\ Done(c, "update_offer")
        /\ proc[c].err = ValidationError(DetailDoesNotExistMsg, {"gold"})

\* ------------------------------------------------------------ C10
\* C10: an accepted Offer update changes only what the request names: every
\* write of the request leaves title, description and image as stored when the
\* request does not name them, overwrites on the row of an entry's offer_type
\* exactly the attributes the entry supplies, and leaves every other attribute
\* and every other row as stored.
C10_UpdateChangesOnlyNamed ==
    \A c \in OfferClients :
        (Done(c, "update_offer") /\ proc[c].err = Ok) => proc[c].onlyNamed

\* ------------------------------------------------------------ C5
\* the step that handles the status patch in flight
OrderPatchHandled == request.op = "patch_order" /\ request' = NoRequest

\* C5: a status patch whose payload has a key other than status is rejected
\* with "Forbidden fields" (ForbiddenFields), an empty payload is rejected with
\* "No data provided." (EmptyUpdate), and in both cases the Order is unchanged.
C5_ForbiddenOrEmptyRejected ==
    [][OrderPatchHandled =>
        /\ (DOMAIN request.data \ {"status"} # {} =>
               response'.err.detail = ForbiddenFieldsMsg /\ orders' = orders)
        /\ (DOMAIN request.data = {} =>
               response'.err.detail = NoDataMsg /\ orders' = orders)]_vars

\* ------------------------------------------------------------ C6
\* C6 as stated: the terms an Order shows are those the OfferDetail had when
\* the Order was placed, whatever Offer updates came later.
C6_OrderShowsTermsAsPlaced ==
    \A i \in 1..Len(orders) : OrderRepresentation(orders[i], details) = orderedTerms[i]

\* C6 as amended: the terms an Order shows are read from the referenced
\* OfferDetail: once an Offer update has saved that OfferDetail, the Order
\* shows, for every attribute the entry supplies, the supplied value.
C6_OrderShowsCurrentTerms ==
    [][\A c \in OfferClients :
        (proc[c].pc = "patch" /\ proc'[c] # proc[c]) =>
            \A i \in 1..Len(orders) :
                orders[i].offer_detail = proc[c].row.pk =>
                    \A a \in DOMAIN RequestDetails(c)[proc[c].i] \ {"offer_type"} :
                        OrderRepresentation(orders'[i], details')[a]
                            = RequestDetails(c)[proc[c].i][a]]_vars

\* an Order placed at price 10 shows price 50 once an Offer update has run to
\* its end
C6_Witness ==
    /\ \E c \in OfferClients : Done(c, "update_offer") /\ proc[c].err = Ok
    /\ \E i \in 1..Len(orders) :
          /\ orderedTerms[i].price = 10
          /\ OrderRepresentation(orders[i], details).price = NewDetailValue.price

\* ------------------------------------------------------------ C7
\* C7 as stated: once an Order is completed or cancelled no status patch
\* changes its status.
C7_TerminalStatusesStay ==
    [][\A i \in 1..Len(orders) :
          orders[i].status \in TerminalStatuses => orders'[i].status = orders[i].status]_vars

\* C7 as amended: a status patch that names one of the four labels is accepted
\* whatever the Order's status is, completed and cancelled included, and the
\* Order then has the named status.
C7_AnyStatusFromAnyStatus ==
    [][(OrderPatchHandled /\ "status" \in DOMAIN request.data
          /\ request.data.status \in STATUS_CHOICES) =>
        /\ response'.err = Ok
        /\ orders'[request.id].status = request.data.status]_vars

\* the patch handled last was accepted on a cancelled Order, and every Order
\* is now in progress
C7_Witness ==
    /\ response = [op |-> "patch_order", err |-> Ok]
    /\ statusBefore = "cancelled"
    /\ Len(orders) > 0
    /\ \A i \in 1..Len(orders) : orders[i].status = "in_progress"

\* ------------------------------------------------------------ C4
\* C4: in every reachable state at most one Review exists for a pair of
\* reviewer and business_user, also when two creations for the pair are
\* handled concurrently.
C4_OneReviewPerPair ==
    \A i, j \in 1..Len(reviews) :
        (reviews[i].reviewer = reviews[j].reviewer
         /\ reviews[i].business_user = reviews[j].business_user) => i = j

\* ------------------------------------------------------------ C8
\* the step that validates and saves the Review patch of client c
ReviewPatchHandled(c) == patch[c].pc = "loaded" /\ patch'[c] = Idle

\* the keys of the payload of client c that a patch must not carry
ForbiddenKeys(c) == DOMAIN patch[c].data \cap {"business_user", "reviewer"}

\* the writable fields of the payload of client c that fail field validation
FailedFields(c) ==
    {f \in ReviewWritableFields : ReviewFieldError(f, patch[c].data, TRUE) # ""}

\* no step changes the id, the reviewer or the business_user of a Review, and
\* an accepted patch changes nothing but the rating and the description of
\* the Review it names
ReviewIdentityKept ==
    /\ Len(reviews') >= Len(reviews)
    /\ \A i \in 1..Len(reviews) :
          /\ reviews'[i].id = reviews[i].id
          /\ reviews'[i].reviewer = reviews[i].reviewer
          /\ reviews'[i].business_user = reviews[i].business_user
    /\ \A c \in PatchClients : (ReviewPatchHandled(c) /\ response'.err = Ok) =>
          \A i \in 1..Len(reviews) : \A a \in DOMAIN reviews[i] :
              reviews'[i][a] # reviews[i][a] =>
                  i = patch[c].id /\ a \in {"rating", "description"}

\* C8 as stated: every patch whose payload has business_user or reviewer is
\* rejected with "Forbidden fields" (ForbiddenFields) and leaves the Review
\* unchanged; an accepted patch changes only rating and description, so the
\* reviewer and the business_user of a Review never change.
C8_ForbiddenKeysGetForbiddenFields ==
    [][/\ ReviewIdentityKept
       /\ \A c \in PatchClients : (ReviewPatchHandled(c) /\ ForbiddenKeys(c) # {}) =>
             /\ response'.err.kind = "ValidationError"
             /\ response'.err.detail = ForbiddenFieldsMsg
             /\ reviews' = reviews]_vars

\* C8 as amended: a patch whose payload has business_user or reviewer is
\* rejected with a ValidationError and writes nothing; the error is "Forbidden
\* fields" with the forbidden keys when the business_user, rating and
\* description the payload supplies pass their field validation, and the
\* errors of the fields that fail (raised before validate() runs) otherwise;
\* an accepted patch changes only rating and description, so the reviewer and
\* the business_user of a Review never change.
C8_ReviewIdentityImmutable ==
    [][/\ ReviewIdentityKept
       /\ \A c \in PatchClients : (ReviewPatchHandled(c) /\ ForbiddenKeys(c) # {}) =>
             /\ response'.err.kind = "ValidationError"
             /\ reviews' = reviews
             /\ IF FailedFields(c) = {}
                THEN /\ response'.err.detail = ForbiddenFieldsMsg
                     /\ response'.err.arg = ForbiddenKeys(c)
                ELSE /\ response'.err.detail # ForbiddenFieldsMsg
                     /\ DOMAIN response'.err.fields = FailedFields(c)]_vars

\* a patch naming a business_user that is the pk of no user was rejected with
\* the error of that field, on a Review an earlier patch had rerated and whose
\* reviewer and business_user are those of its creation
C8_Witness ==
    /\ response = [op |-> "patch_review",
                   err |-> FieldErrors([business_user |-> InvalidPkMsg])]
    /\ \E i \in 1..Len(reviews) :
          reviews[i].rating = 5 /\ reviews[i].reviewer = "u1"
          /\ reviews[i].business_user = "b1"

====
